---- MODULE Spec2Model ----
(***************************************************************************)
(* A model of the LOTL chat service (src/chat_server.py): the HTTP front   *)
(* door (Handler) with its upload proxy, the RAG client (rag_search), the  *)
(* prompt composer (build_context, compose_messages), the LLM invoker      *)
(* (llm_answer, llm_stream), and the process-wide configuration read from  *)
(* the environment at start-up.                                            *)
(*                                                                         *)
(* Text that the code measures (len) or cuts (strip) is a sequence of      *)
(* Unicode code points, as a Python str is.  Text that is only compared    *)
(* (header values, paths, error texts) is a TLA+ string.                   *)
(***************************************************************************)
EXTENDS Integers, Sequences, FiniteSets, TLC

VARIABLES
    env,            \* the module globals read from os.environ / the imports
    client_handle,  \* the global _client: TRUE once the OpenAI handle is cached
    pc,             \* where the server (or the function under check) is
    req,            \* the request being handled
    resp,           \* the response head and JSON body sent for it
    calls,          \* the upstream calls made while handling it
    rag,            \* the last rag_search call: its attempts and its return value
    gen,            \* the llm_stream generator: its position and what it holds
    frames,         \* the frames llm_stream has yielded, in order
    written,        \* the frames do_GET has written to the socket, in order
    uncaught,       \* the exception that ended the handler, "" if none did
    args,           \* the arguments of the pure function under check
    ret             \* its return value

vars == <<env, client_handle, pc, req, resp, calls, rag, gen, frames, written,
          uncaught, args, ret>>

(***************************************************************************)
(* Python values                                                           *)
(***************************************************************************)
\* None, where a str is expected: no str holds the code point -1.
None == <<-1>>

\* bool(v) of a str or None.
Truthy(v) == v # None /\ v # <<>>

\* a or b
PyOr(a, b) == IF Truthy(a) THEN a ELSE b

\* The characters str.strip() removes: every code point c with chr(c).isspace().
Whitespace ==
    {9, 10, 11, 12, 13, 28, 29, 30, 31, 32, 133, 160, 5760}
    \cup (8192..8202) \cup {8232, 8233, 8239, 8287, 12288}

RECURSIVE lstrip(_)
lstrip(s) == IF s # <<>> /\ Head(s) \in Whitespace THEN lstrip(Tail(s)) ELSE s

RECURSIVE rstrip(_)
rstrip(s) ==
    IF s # <<>> /\ s[Len(s)] \in Whitespace THEN rstrip(SubSeq(s, 1, Len(s) - 1)) ELSE s

strip(s) == rstrip(lstrip(s))

\* sep.join(parts)
RECURSIVE join(_, _)
join(sep, parts) ==
    IF parts = <<>> THEN <<>>
    ELSE IF Len(parts) = 1 THEN parts[1]
    ELSE parts[1] \o sep \o join(sep, Tail(parts))

NL == <<10>>

(***************************************************************************)
(* Prompt composer                                                         *)
(***************************************************************************)
\* "[אין הקשר ממקורות]"
NO_CONTEXT ==
    <<91, 1488, 1497, 1503, 32, 1492, 1511, 1513, 1512, 32,
      1502, 1502, 1511, 1493, 1512, 1493, 1514, 93>>

\* "[מקור: "
CHUNK_OPEN == <<91, 1502, 1511, 1493, 1512, 58, 32>>

\* "source"
SOURCE == <<115, 111, 117, 114, 99, 101>>

\* fn = r.get("filename") or r.get("doc_id") or "source"
chunk_fn(r) == PyOr(PyOr(r.filename, r.doc_id), SOURCE)

\* ex = (r.get("excerpt") or "").strip()
chunk_ex(r) == strip(PyOr(r.excerpt, <<>>))

\* chunk = f"[מקור: {fn}]\n{ex}\n"
chunk_of(r) == CHUNK_OPEN \o chunk_fn(r) \o <<93>> \o NL \o chunk_ex(r) \o NL

\* if used + len(chunk) > max_chars: break
over_budget(used, chunk, max_chars) == used + Len(chunk) > max_chars

\* The mutant: continue in place of break -- a chunk that does not fit is
\* skipped and the loop goes on.
RECURSIVE context_loop_continue(_, _, _, _, _)
context_loop_continue(results, i, used, out, max_chars) ==
    IF i > Len(results) THEN out
    ELSE IF over_budget(used, chunk_of(results[i]), max_chars)
         THEN context_loop_continue(results, i + 1, used, out, max_chars)
         ELSE context_loop_continue(results, i + 1, used + Len(chunk_of(results[i])),
                                    Append(out, chunk_of(results[i])), max_chars)

\* The for loop of build_context from results[i] on: the chunks appended to out.

RECURSIVE context_loop(_, _, _, _, _)
context_loop(results, i, used, out, max_chars) ==
    IF i > Len(results) THEN out
    ELSE IF over_budget(used, chunk_of(results[i]), max_chars) THEN out
         ELSE context_loop(results, i + 1, used + Len(chunk_of(results[i])),
                           Append(out, chunk_of(results[i])), max_chars)

build_context(results, max_chars) ==
    IF results = <<>> THEN NO_CONTEXT
    ELSE join(NL, context_loop(results, 1, 0, <<>>, max_chars))

(***************************************************************************)
(* Configuration (module globals, set once at import)                      *)
(***************************************************************************)
\* A header, query parameter or JSON member that is not there.
Absent == "<absent>"

\* TOP_K_DEFAULT = int(os.getenv("TOP_K", "5"))
TOP_K_DEFAULT == 5

\* THRESH_DEFAULT = float(os.getenv("SIM_THRESHOLD", "0.2")), in tenths
THRESH_DEFAULT == 2

GOOD_ORIGIN == "https://good.example"
EVIL_ORIGIN == "https://evil.example"

\* The environments the process can be started in.
Envs ==
    [CHAT_API_SECRET : {"", "s3cret"},
     CORS_ALLOW      : {<<>>, <<GOOD_ORIGIN>>},
     CHAT_USE_RESP   : BOOLEAN,
     OPENAI_API_KEY  : {"", "sk-key"},
     OpenAI          : BOOLEAN,    \* FALSE: the import failed, OpenAI = None
     requests        : BOOLEAN,    \* FALSE: the import failed, requests = None
     VS_API_KEY      : {"", "vs-key"}]

(***************************************************************************)
(* client(): the lazily created, cached OpenAI handle                      *)
(***************************************************************************)
\* Returns the handle or raises; handle is the value of _client afterwards.
client(e, handle) ==
    IF e.OPENAI_API_KEY = ""
    THEN [raised |-> TRUE, error |-> "Missing OPENAI_API_KEY", handle |-> handle]
    ELSE IF ~handle /\ ~e.OpenAI
    THEN [raised |-> TRUE, error |-> "Missing 'openai' package", handle |-> handle]
    ELSE [raised |-> FALSE, error |-> "", handle |-> TRUE]

(***************************************************************************)
(* CORS                                                                    *)
(***************************************************************************)
InList(x, list) == \E i \in 1..Len(list) : list[i] = x

\* The mutant: any request origin is echoed once a list is configured.
allow_origin_echo(e, origin) ==
    IF e.CORS_ALLOW = <<>> THEN "*"
    ELSE IF origin # Absent /\ origin # "" THEN origin
    ELSE Absent

\* Absent stands for the None that allow_origin returns.
allow_origin(e, origin) ==
    IF e.CORS_ALLOW = <<>> THEN "*"
    ELSE IF origin # Absent /\ origin # "" /\ InList(origin, e.CORS_ALLOW) THEN origin
    ELSE Absent

(***************************************************************************)
(* RAG client                                                              *)
(***************************************************************************)
\* for _ in range(2)
RAG_ATTEMPTS == 2

\* What one POST to /api/vs/search comes to:
\*   transport    requests.post raises (connection error, timeout)
\*   status       r.raise_for_status() raises (non-2xx)
\*   not_json     r.json() raises, or the body is no JSON object
\*   flag_absent  a JSON object without "ok"
\*   flag_false   a JSON object with a false "ok"
\*   ok           a JSON object with a true "ok" and these "results"
RagFailures == {"transport", "status", "not_json", "flag_absent", "flag_false"}

\* The kinds the except clause handles (it then sleeps 0.3 s).
RagExceptions == {"transport", "status", "not_json"}

\* The mutant: one attempt only.
RECURSIVE rag_loop_once(_, _, _)
rag_loop_once(outcomes, i, acc) ==
    IF i > 1 THEN [value |-> <<>>, attempts |-> acc.attempts, sleeps |-> acc.sleeps, raised |-> FALSE]
    ELSE IF outcomes[i].kind = "ok"
    THEN [value |-> outcomes[i].results, attempts |-> acc.attempts + 1,
          sleeps |-> acc.sleeps, raised |-> FALSE]
    ELSE rag_loop_once(outcomes, i + 1,
             [attempts |-> acc.attempts + 1,
              sleeps |-> acc.sleeps + (IF outcomes[i].kind \in RagExceptions THEN 1 ELSE 0)])

\* The retry loop from attempt i on; outcomes[i] is what the i-th POST comes to.
RECURSIVE rag_loop(_, _, _)
rag_loop(outcomes, i, acc) ==
    IF i > RAG_ATTEMPTS
    THEN [value |-> <<>>, attempts |-> acc.attempts, sleeps |-> acc.sleeps, raised |-> FALSE]
    ELSE IF outcomes[i].kind = "ok"
    THEN [value |-> outcomes[i].results, attempts |-> acc.attempts + 1,
          sleeps |-> acc.sleeps, raised |-> FALSE]
    ELSE rag_loop(outcomes, i + 1,
             [attempts |-> acc.attempts + 1,
              sleeps |-> acc.sleeps + (IF outcomes[i].kind \in RagExceptions THEN 1 ELSE 0)])

rag_search(e, outcomes) ==
    IF ~e.requests
    THEN [value |-> <<>>, attempts |-> 0, sleeps |-> 0, raised |-> FALSE]
    ELSE rag_loop(outcomes, 1, [attempts |-> 0, sleeps |-> 0])

(***************************************************************************)
(* LLM invoker: llm_answer                                                 *)
(***************************************************************************)
\* sources = [{doc_id, filename, score, excerpt, tags} for r in results]
answer_sources(results) ==
    [i \in 1..Len(results) |->
        [doc_id |-> results[i].doc_id, filename |-> results[i].filename,
         score |-> results[i].score, excerpt |-> results[i].excerpt,
         tags |-> results[i].tags]]

\* The value llm_answer returns with the text txt and the usage u.
answer_value(txt, u, results) ==
    [ok |-> TRUE, answer |-> txt, sources |-> answer_sources(results), tokens |-> u]

\* llm_answer returned v / raised the exception text err.
\*   primary_calls   responses.create calls made
\*   primary_raised  the try block raised (client() or responses.create)
\*   fallback_tries  executions of the except branch (the fallback statement)
\*   fallback_calls  chat.completions.create calls made (client() may raise first)
Answered(v, handle, p, p_raised, tries, f) ==
    [raised |-> FALSE, error |-> "", value |-> v, handle |-> handle, primary_calls |-> p,
     primary_raised |-> p_raised, fallback_tries |-> tries, fallback_calls |-> f]

AnswerRaised(err, handle, p, p_raised, tries, f) ==
    [raised |-> TRUE, error |-> err, value |-> [ok |-> FALSE], handle |-> handle,
     primary_calls |-> p, primary_raised |-> p_raised, fallback_tries |-> tries,
     fallback_calls |-> f]

\* The except branch of llm_answer: the fallback statement
\* client().chat.completions.create(model, messages, temperature), and
\* txt = c.choices[0].message.content.strip(), which raises for a content
\* of None.
answer_fallback(e, handle, results, fallback, p, p_raised) ==
    LET c2 == client(e, handle) IN
    IF c2.raised THEN AnswerRaised(c2.error, c2.handle, p, p_raised, 1, 0)
    ELSE IF fallback.kind # "ok" THEN AnswerRaised(fallback.error, c2.handle, p, p_raised, 1, 1)
    ELSE IF fallback.text = None
    THEN AnswerRaised("AttributeError: strip", c2.handle, p, p_raised, 1, 1)
    ELSE Answered(answer_value(strip(fallback.text), fallback.usage, results),
                  c2.handle, p, p_raised, 1, 1)

\* The mutant: an exception of the primary call is not caught.
llm_answer_no_retry(e, handle, results, primary, fallback) ==
    IF ~e.CHAT_USE_RESP THEN answer_fallback(e, handle, results, fallback, 0, FALSE)
    ELSE LET c1 == client(e, handle) IN
         IF c1.raised THEN AnswerRaised(c1.error, c1.handle, 0, TRUE, 0, 0)
         ELSE IF primary.kind # "ok" THEN AnswerRaised(primary.error, c1.handle, 1, TRUE, 0, 0)
         ELSE Answered(answer_value(strip(PyOr(primary.text, <<>>)), primary.usage, results),
                       c1.handle, 1, FALSE, 0, 0)

\* primary, fallback: what client().responses.create and
\* client().chat.completions.create come to if they are called:
\* [kind |-> "ok", text, usage] or [kind |-> "raise", error]; text is the
\* output_text / message content, a str or None.
\* txt = (resp.output_text or "").strip()
\* raise RuntimeError("FORCE_FALLBACK") is not counted as a raise of the
\* primary call: no primary call is made then.
llm_answer(e, handle, results, primary, fallback) ==
    IF ~e.CHAT_USE_RESP THEN answer_fallback(e, handle, results, fallback, 0, FALSE)
    ELSE LET c1 == client(e, handle) IN
         IF c1.raised THEN answer_fallback(e, c1.handle, results, fallback, 0, TRUE)
         ELSE IF primary.kind # "ok"
         THEN answer_fallback(e, c1.handle, results, fallback, 1, TRUE)
         ELSE Answered(answer_value(strip(PyOr(primary.text, <<>>)), primary.usage, results),
                       c1.handle, 1, FALSE, 0, 0)

(***************************************************************************)
(* LLM invoker: llm_stream, a generator                                    *)
(***************************************************************************)
\* meta = [{doc_id, filename, score} for r in results]
stream_meta(results) ==
    [i \in 1..Len(results) |->
        [doc_id |-> results[i].doc_id, filename |-> results[i].filename,
         score |-> results[i].score]]

\* The frames (one yield each):
\*   meta     json.dumps({"type": "meta", "sources": meta}) + "\n"
\*   text     txt.encode("utf-8")
\*   newline  b"\n"
\*   error    "\n" + json.dumps({"type": "error", "detail": str(e)}) + "\n"
MetaFrame(results) == [type |-> "meta", sources |-> stream_meta(results), text |-> "", detail |-> ""]
TextFrame(txt) == [type |-> "text", sources |-> <<>>, text |-> txt, detail |-> ""]
NewlineFrame == [type |-> "newline", sources |-> <<>>, text |-> "", detail |-> ""]
ErrorFrame(detail) == [type |-> "error", sources |-> <<>>, text |-> "", detail |-> detail]

\* What the generator meets when it is resumed:
\*   at "meta"  create(stream=True) returns ("open") or raises ("raise")
\*   at "iter"  the next upstream chunk: "text" (a delta with content),
\*              "no_delta" (no delta, or one without content), the end of the
\*              stream ("end"), or an exception from the iterator ("raise")
\*   elsewhere  nothing ("resume")
Resume == [kind |-> "resume", text |-> "", error |-> ""]

\* The mutant: the sources of the meta frame stop at the first result.
stream_first_frame_top1(results) ==
    MetaFrame(IF results = <<>> THEN <<>> ELSE <<results[1]>>)

\* yield (json.dumps({"type": "meta", "sources": meta}) + "\n").encode("utf-8")
stream_first_frame(results) == MetaFrame(results)

\* The mutant: the trailing newline sits in a finally clause, so that it is
\* yielded after an error frame too.
stream_after_terminal_finally(at, handle) ==
    IF at = "error"
    THEN [at |-> "newline", out |-> <<NewlineFrame>>, handle |-> handle]
    ELSE [at |-> "done", out |-> <<>>, handle |-> handle]

\* Resumed at the trailing newline or at the error frame, the generator returns.
stream_after_terminal(at, handle) == [at |-> "done", out |-> <<>>, handle |-> handle]

\* One resumption of the generator that is suspended at `at`: where it stops
\* next, the frame it yields there (out, empty when it only consumed a chunk or
\* returned), and _client afterwards.
\*   start    not yet started          meta   suspended at the meta yield
\*   iter     inside the for loop      newline, error  suspended at that yield
\*   done     returned
llm_stream_next(e, handle, results, at, ev) ==
    IF at = "start"
    THEN [at |-> "meta", out |-> <<stream_first_frame(results)>>, handle |-> handle]
    ELSE IF at = "meta"
    THEN LET c == client(e, handle) IN
         IF c.raised THEN [at |-> "error", out |-> <<ErrorFrame(c.error)>>, handle |-> c.handle]
         ELSE IF ev.kind = "raise"
         THEN [at |-> "error", out |-> <<ErrorFrame(ev.error)>>, handle |-> c.handle]
         ELSE [at |-> "iter", out |-> <<>>, handle |-> c.handle]
    ELSE IF at = "iter"
    THEN IF ev.kind = "text" THEN [at |-> "iter", out |-> <<TextFrame(ev.text)>>, handle |-> handle]
         ELSE IF ev.kind = "no_delta" THEN [at |-> "iter", out |-> <<>>, handle |-> handle]
         ELSE IF ev.kind = "end" THEN [at |-> "newline", out |-> <<NewlineFrame>>, handle |-> handle]
         ELSE [at |-> "error", out |-> <<ErrorFrame(ev.error)>>, handle |-> handle]
    ELSE stream_after_terminal(at, handle)

\* The events the generator can meet at a position.
OpenEvents ==
    {[kind |-> "open", text |-> "", error |-> ""],
     [kind |-> "raise", text |-> "", error |-> "APIConnectionError"]}

ChunkEvents ==
    {[kind |-> "text", text |-> "tok-a", error |-> ""],
     [kind |-> "text", text |-> "tok-b", error |-> ""],
     [kind |-> "no_delta", text |-> "", error |-> ""],
     [kind |-> "end", text |-> "", error |-> ""],
     [kind |-> "raise", text |-> "", error |-> "APIError"]}

EventsAt(at) ==
    IF at = "meta" THEN OpenEvents ELSE IF at = "iter" THEN ChunkEvents ELSE {Resume}

\* do_GET's loop over llm_stream(q, results): every yielded chunk is written
\* and flushed; a BrokenPipeError on a write ends the loop and leaves the
\* generator where it is.  script: the events the generator meets, in order;
\* break_at: the number of the write that fails (0: none does).
RECURSIVE stream_loop(_, _, _, _, _)
stream_loop(e, results, script, break_at, st) ==
    IF st.at = "done" \/ st.broken THEN st
    ELSE LET takes == st.at \in {"meta", "iter"}
             ev == IF takes THEN script[st.i] ELSE Resume
             n == llm_stream_next(e, st.handle, results, st.at, ev)
             fs == st.frames \o n.out
             fails == n.out # <<>> /\ Len(fs) = break_at
         IN stream_loop(e, results, script, break_at,
                [at |-> n.at, handle |-> n.handle, frames |-> fs,
                 written |-> IF fails THEN st.written ELSE st.written \o n.out,
                 i |-> IF takes THEN st.i + 1 ELSE st.i,
                 broken |-> fails])

(***************************************************************************)
(* HTTP front door: responses                                              *)
(***************************************************************************)
\* "שאלה ריקה."
EMPTY_QUESTION == <<1513, 1488, 1500, 1492, 32, 1512, 1497, 1511, 1492, 46>>

\* The methods Handler defines a do_<method> for.
HandlerMethods == {"OPTIONS", "GET", "POST"}

\* A request target with a blank in it: one word more on the request line.
MalformedPaths == {"/a b"}

\* The request line of r is r.method, r.path and r.version, the last "" for
\* a line of two words.  r.size: "ok", "line" (a request line of more than
\* 65536 bytes) or "header" (a header line that long, or more than 100
\* header lines).
\* Versions parse_request accepts as the third word: any below 2.0, the
\* version "HTTP/0.9" written out included.
ValidVersions == {"HTTP/0.9", "HTTP/1.0", "HTTP/1.1"}
BadVersions == {"HTTP/1.x"}
LaterVersions == {"HTTP/2.0"}

\* parse_request(), and the size test handle_one_request makes before it:
\* the status send_error is called with, 0 if the request parses.
parse_error(r) ==
    IF r.size = "line" THEN 414
    ELSE IF r.version \in BadVersions THEN 400
    ELSE IF r.version \in LaterVersions THEN 505
    ELSE IF r.path \in MalformedPaths THEN 400
    ELSE IF r.version = "" /\ r.method # "GET" THEN 400
    ELSE IF r.size = "header" THEN 431
    ELSE 0

parse_request(r) == parse_error(r) = 0

\* self.request_version when the answer is sent: "" after the size test
\* failed, the version of the line once it has passed its test (which may
\* itself be "HTTP/0.9"), and the default "HTTP/0.9" before that and for a
\* line of two words.
request_version(r) ==
    IF r.size = "line" THEN ""
    ELSE IF r.version \in ValidVersions THEN r.version
    ELSE "HTTP/0.9"

\* self.command when the answer is sent: set once the request line has
\* passed, None before and "" after the size test failed.
command(r) ==
    IF r.size = "line" THEN ""
    ELSE IF parse_error(r) \in {0, 431} THEN r.method
    ELSE "None"

\* send_response, send_header and end_headers write nothing while
\* self.request_version is "HTTP/0.9" (a line of two words, a line whose
\* third word is HTTP/0.9, or a line rejected before its version was
\* taken): the body goes out alone.
sent_head(r, head) ==
    IF request_version(r) = "HTTP/0.9"
    THEN [status |-> 0, content_type |-> "", acao |-> Absent, vary |-> FALSE,
          keep_alive |-> FALSE, body |-> head.body]
    ELSE head

\* Nothing was sent (the handler has not answered, or it died before it did).
NoResponse ==
    [status |-> 0, content_type |-> "", acao |-> Absent, vary |-> FALSE,
     keep_alive |-> FALSE, body |-> [nothing |-> TRUE]]

\* _send_headers(status, content_type, extra) and the body written after it.
\* acao: Access-Control-Allow-Origin; vary: Vary: Origin is sent.
send_headers(e, r, status, content_type, keep_alive, body) ==
    LET allow == allow_origin(e, r.origin) IN
    sent_head(r, [status |-> status, content_type |-> content_type,
                  acao |-> allow, vary |-> allow # Absent,
                  keep_alive |-> keep_alive, body |-> body])

\* _send_json(obj, status)
send_json(e, r, obj, status) == send_headers(e, r, status, "application/json", FALSE, obj)

\* json.dumps(obj, ensure_ascii=False): the text written for obj.  A JSON
\* text is the value it stands for and how it is spelt: "dumps" is the
\* spelling json.dumps gives (", " and ": " separators, members in order).
json_dumps(obj) == [value |-> obj, spelling |-> "dumps"]

\* r.json() of a text that parses: the value; the spelling is gone.
json_loads(text) == text.value

\* The mutant: a missing header passes.
auth_ok_lenient(e, r) ==
    \/ e.CHAT_API_SECRET = ""
    \/ r.key = Absent
    \/ r.key = e.CHAT_API_SECRET

\* _auth_ok: self.headers.get("X-LOT-KEY", "") == CHAT_API_SECRET
auth_ok(e, r) ==
    \/ e.CHAT_API_SECRET = ""
    \/ (IF r.key = Absent THEN "" ELSE r.key) = e.CHAT_API_SECRET

(***************************************************************************)
(* int() and float() of a parameter                                        *)
(***************************************************************************)
\* The literals of the model: int() takes the first two, float() all three,
\* and "abc" neither.  Floats are in tenths.
IntLiterals == {"3", "12"}
FloatLiterals == IntLiterals \cup {"0.5"}

int_of(s) == IF s = "3" THEN 3 ELSE 12
float_of(s) == IF s = "0.5" THEN 5 ELSE 10 * int_of(s)

\* A member of the JSON body as body.get hands it to int() or float(): a
\* JSON string or number with its literal, null, or no such member.
Missing == [json |-> "absent", lit |-> ""]
JNull == [json |-> "null", lit |-> ""]
JStr(s) == [json |-> "string", lit |-> s]
JNum(s) == [json |-> "number", lit |-> s]

\* int(v) raises for None (TypeError) and for a str that is no int literal
\* (ValueError); a number is truncated (int(0.5) is 0).
int_raises(v) ==
    IF v.json = "null" THEN "TypeError"
    ELSE IF v.json = "string" /\ v.lit \notin IntLiterals THEN "ValueError"
    ELSE ""
int_of_member(v, default) ==
    IF v.json = "absent" THEN default
    ELSE IF v.json = "number" THEN float_of(v.lit) \div 10
    ELSE int_of(v.lit)

\* float(v), likewise.
float_raises(v) ==
    IF v.json = "null" THEN "TypeError"
    ELSE IF v.json = "string" /\ v.lit \notin FloatLiterals THEN "ValueError"
    ELSE ""
float_of_member(v, default) ==
    IF v.json = "absent" THEN default ELSE float_of(v.lit)

(***************************************************************************)
(* What a handler leaves behind                                            *)
(***************************************************************************)
NoCalls ==
    [rag_posts |-> 0, primary |-> 0, primary_raised |-> FALSE, fallback_tries |-> 0,
     fallback |-> 0, fallback_raised |-> FALSE, upload |-> <<>>]

NoRag == [called |-> FALSE, value |-> <<>>, attempts |-> 0, sleeps |-> 0,
          raised |-> FALSE, top_k |-> 0, threshold |-> 0]

RagOf(out, top_k, thr) ==
    [called |-> TRUE, value |-> out.value, attempts |-> out.attempts,
     sleeps |-> out.sleeps, raised |-> out.raised, top_k |-> top_k, threshold |-> thr]

\* The handler returned after sending resp.
Sent(response, handle, c, rg) ==
    [crashed |-> FALSE, exception |-> "", resp |-> response, handle |-> handle,
     calls |-> c, rag |-> rg, frames |-> <<>>, written |-> <<>>, at |-> "none"]

\* The handler ended with an exception that nothing in it catches.
Uncaught(exc, handle) ==
    [crashed |-> TRUE, exception |-> exc, resp |-> NoResponse, handle |-> handle,
     calls |-> NoCalls, rag |-> NoRag, frames |-> <<>>, written |-> <<>>, at |-> "none"]

(***************************************************************************)
(* What the base class answers itself                                      *)
(***************************************************************************)
\* send_error(code): an HTML page (no body if the command is HEAD) that does
\* not go through _send_headers, so it carries no CORS header.
send_error(r, code) ==
    sent_head(r, [status |-> code, content_type |-> "text/html;charset=utf-8",
                  acao |-> Absent, vary |-> FALSE, keep_alive |-> FALSE,
                  body |-> IF command(r) = "HEAD" THEN [empty |-> TRUE]
                           ELSE [html |-> TRUE]])

\* handle_one_request() on a request that reaches no do_<method>: the status
\* of parse_request, or 501 for a method the Handler lacks.
handle_error(handle, r) ==
    Sent(send_error(r, IF ~parse_request(r) THEN parse_error(r) ELSE 501),
         handle, NoCalls, NoRag)

(***************************************************************************)
(* Handler.do_OPTIONS, do_GET                                              *)
(***************************************************************************)
do_OPTIONS(e, handle, r) ==
    Sent(send_headers(e, r, 204, "application/json", FALSE, [empty |-> TRUE]),
         handle, NoCalls, NoRag)

\* GET /api/chat/stream.  rag_outcomes, script, break_at: what the vector
\* store, the LLM stream and the client's socket do during the request.
get_stream(e, handle, r, rag_outcomes, script, break_at) ==
    IF ~auth_ok(e, r)
    THEN Sent(send_json(e, r, [error |-> "unauthorized"], 401), handle, NoCalls, NoRag)
    ELSE IF r.top_k # Absent /\ r.top_k \notin IntLiterals
    THEN Uncaught("ValueError: int(top_k)", handle)
    ELSE IF r.threshold # Absent /\ r.threshold \notin FloatLiterals
    THEN Uncaught("ValueError: float(threshold)", handle)
    ELSE LET top_k == IF r.top_k = Absent THEN TOP_K_DEFAULT ELSE int_of(r.top_k)
             thr == IF r.threshold = Absent THEN THRESH_DEFAULT ELSE float_of(r.threshold)
             found == rag_search(e, rag_outcomes)
             st == stream_loop(e, found.value, script, break_at,
                       [at |-> "start", handle |-> handle, frames |-> <<>>,
                        written |-> <<>>, i |-> 1, broken |-> FALSE])
         IN [crashed |-> FALSE, exception |-> "",
             resp |-> send_headers(e, r, 200, "text/plain; charset=utf-8", TRUE,
                                   [stream |-> TRUE]),
             handle |-> st.handle,
             calls |-> [NoCalls EXCEPT !.rag_posts = found.attempts],
             rag |-> RagOf(found, top_k, thr),
             frames |-> st.frames, written |-> st.written, at |-> st.at]

do_GET(e, handle, r, rag_outcomes, script, break_at) ==
    IF r.path = "/health"
    THEN Sent(send_json(e, r, [ok |-> TRUE, time |-> "time.time()", port |-> "PORT",
                                model |-> "CHAT_MODEL", vs |-> "VS_API_BASE"], 200),
              handle, NoCalls, NoRag)
    ELSE IF r.path = "/api/chat/stream"
    THEN get_stream(e, handle, r, rag_outcomes, script, break_at)
    ELSE IF r.path = "/chat"
    THEN Sent(send_headers(e, r, 200, "text/html; charset=utf-8", FALSE, [html |-> TRUE]),
              handle, NoCalls, NoRag)
    ELSE Sent(send_json(e, r, [error |-> "not_found"], 404), handle, NoCalls, NoRag)

(***************************************************************************)
(* Handler.do_POST                                                         *)
(***************************************************************************)
\* except Exception as e: return self._send_json({"ok": False, "error": str(e)}, 500)
Failed500(e, r, text, handle, c, rg) ==
    Sent(send_json(e, r, [ok |-> FALSE, error |-> text], 500), handle, c, rg)

\* The mutant: the message is not stripped.
question_of_unstripped(b) == PyOr(b.message, <<>>)

\* q = (body.get("message") or "").strip(), for a message that is a str or None
question_of(b) == strip(PyOr(b.message, <<>>))

\* POST /api/chat.  The body b of the request:
\*   length   the Content-Length header: "absent", "0", "n" (the body's
\*            length) or "bad" (no number)
\*   json     what the n bytes are: an "object", an "array", or "malformed"
\*   message  the "message" member: a str, None (absent or null) or, with
\*            message_is_str FALSE, a non-zero number
\*   top_k, threshold  the members: a JSON string, number or null, or Missing
post_chat(e, handle, r, rag_outcomes, primary, fallback) ==
    LET b == r.body IN
    IF ~auth_ok(e, r)
    THEN Sent(send_json(e, r, [error |-> "unauthorized"], 401), handle, NoCalls, NoRag)
    ELSE IF b.length = "bad"
    THEN Failed500(e, r, "ValueError: int(Content-Length)", handle, NoCalls, NoRag)
    ELSE IF b.length = "n" /\ b.json = "malformed"
    THEN Failed500(e, r, "JSONDecodeError", handle, NoCalls, NoRag)
    ELSE IF b.length = "n" /\ b.json = "array"
    THEN Failed500(e, r, "AttributeError: get", handle, NoCalls, NoRag)
    ELSE IF b.length = "n" /\ ~b.message_is_str
    THEN Failed500(e, r, "AttributeError: strip", handle, NoCalls, NoRag)
    ELSE IF b.length # "n" \/ question_of(b) = <<>>
    THEN Sent(send_json(e, r, [ok |-> TRUE, answer |-> EMPTY_QUESTION, sources |-> <<>>], 200),
              handle, NoCalls, NoRag)
    ELSE IF int_raises(b.top_k) # ""
    THEN Failed500(e, r, int_raises(b.top_k) \o ": int(top_k)", handle, NoCalls, NoRag)
    ELSE IF float_raises(b.threshold) # ""
    THEN Failed500(e, r, float_raises(b.threshold) \o ": float(threshold)", handle,
                   NoCalls, NoRag)
    ELSE LET top_k == int_of_member(b.top_k, TOP_K_DEFAULT)
             thr == float_of_member(b.threshold, THRESH_DEFAULT)
             found == rag_search(e, rag_outcomes)
             a == llm_answer(e, handle, found.value, primary, fallback)
             c == [NoCalls EXCEPT !.rag_posts = found.attempts, !.primary = a.primary_calls,
                                  !.primary_raised = a.primary_raised,
                                  !.fallback_tries = a.fallback_tries,
                                  !.fallback = a.fallback_calls,
                                  !.fallback_raised = a.raised]
         IN IF a.raised
            THEN Failed500(e, r, a.error, a.handle, c, RagOf(found, top_k, thr))
            ELSE Sent(send_json(e, r, a.value, 200), a.handle, c, RagOf(found, top_k, thr))

\* The value of the Host header of every request.
HOST == "chat.example"

\* headers = {k: v for k, v in self.headers.items()}; headers.pop("Host", None);
\* if VS_API_KEY: headers["X-LOT-KEY"] = VS_API_KEY
\* The dict is keyed by the header names as the client spelt them, so pop
\* removes the header only if its name was sent as "Host".
upload_headers(e, r) ==
    [host |-> IF r.body.host_name = "Host" THEN Absent ELSE HOST,
     key |-> IF e.VS_API_KEY # "" THEN e.VS_API_KEY ELSE r.key,
     origin |-> r.origin,
     content_length |-> r.body.length]

\* POST /api/upload.  up: what the POST to /api/vs/index comes to: "transport"
\* (requests.post raises), "not_json" (a response whose body r.json() cannot
\* parse) or "json" (a response with a JSON body), with the status and the
\* text of the body.
post_upload(e, handle, r, up) ==
    IF ~e.requests
    THEN Failed500(e, r, "requests not installed", handle, NoCalls, NoRag)
    ELSE IF r.body.length = "bad"
    THEN Failed500(e, r, "ValueError: int(Content-Length)", handle, NoCalls, NoRag)
    ELSE LET sent == [headers |-> upload_headers(e, r),
                      data |-> IF r.body.length = "n" THEN r.body.raw ELSE "",
                      response |-> up]
             c == [NoCalls EXCEPT !.upload = <<sent>>]
         IN IF up.kind = "transport" THEN Failed500(e, r, "ConnectionError", handle, c, NoRag)
            ELSE IF up.kind = "not_json" THEN Failed500(e, r, "JSONDecodeError", handle, c, NoRag)
            ELSE Sent(send_json(e, r, json_loads(up.text), up.status), handle, c, NoRag)

do_POST(e, handle, r, rag_outcomes, primary, fallback, up) ==
    IF r.path = "/api/chat" THEN post_chat(e, handle, r, rag_outcomes, primary, fallback)
    ELSE IF r.path = "/api/upload" THEN post_upload(e, handle, r, up)
    ELSE Sent(send_json(e, r, [error |-> "not_found"], 404), handle, NoCalls, NoRag)

(***************************************************************************)
(* The requests, and what the collaborators answer                         *)
(***************************************************************************)
\* Upstream chunks one llm_stream run consumes at most.
MaxChunks == 3

\* Writes of one streamed response of which one may fail.
MaxWrites == 2

\* Results of one search.
MaxResults == 2

R1 == [doc_id |-> <<100, 49>>, filename |-> <<97, 46, 112>>, score |-> 9,
       excerpt |-> <<160, 120, 10>>, tags |-> <<116>>]
R2 == [doc_id |-> <<100, 50>>, filename |-> None, score |-> 4,
       excerpt |-> None, tags |-> None]

RECURSIVE ListsUpTo(_, _)
ListsUpTo(S, n) ==
    IF n = 0 THEN {<<>>}
    ELSE LET shorter == ListsUpTo(S, n - 1) IN
         shorter \cup {Append(l, x) : l \in {m \in shorter : Len(m) = n - 1}, x \in S}

ResultLists == ListsUpTo({R1, R2}, MaxResults)

RagFail(kind) == [kind |-> kind, results |-> <<>>]
RagOk(results) == [kind |-> "ok", results |-> results]

Keys == {Absent, "s3cret", "wrong"}
Origins == {Absent, GOOD_ORIGIN, EVIL_ORIGIN}

HI == <<104, 105>>

NoBody ==
    [length |-> "absent", json |-> "object", message |-> None, message_is_str |-> TRUE,
     top_k |-> Missing, threshold |-> Missing, raw |-> "", host_name |-> "Host"]

Object(message, top_k, threshold) ==
    [NoBody EXCEPT !.length = "n", !.message = message, !.top_k = top_k,
                   !.threshold = threshold, !.raw = "json"]

ChatBodies ==
    {NoBody,
     [Object(HI, Missing, Missing) EXCEPT !.length = "0"],
     [Object(HI, Missing, Missing) EXCEPT !.length = "bad"],
     [Object(HI, Missing, Missing) EXCEPT !.json = "malformed"],
     [Object(HI, Missing, Missing) EXCEPT !.json = "array"],
     [Object(<<53>>, Missing, Missing) EXCEPT !.message_is_str = FALSE]}
    \cup {Object(m, Missing, Missing) :
            m \in {None, <<>>, <<32, 10>>, <<160>>, HI, <<32>> \o HI \o <<10>>,
                   <<160>> \o HI \o <<8195>>}}
    \cup {Object(<<>>, JStr("abc"), JStr("abc"))}
    \cup {Object(HI, k, t) :
            <<k, t>> \in {<<JNum("3"), JNum("0.5")>>, <<JStr("12"), JStr("3")>>,
                          <<JStr("abc"), Missing>>, <<JStr("0.5"), Missing>>,
                          <<JNum("0.5"), JNum("3")>>, <<JNull, Missing>>,
                          <<Missing, JStr("abc")>>, <<Missing, JNull>>}}

\* host_name: how the client spelt the name of its Host header.
\* A body with no Content-Length (length "absent") and bytes all the same
\* (raw "multipart") is one sent with Transfer-Encoding: chunked.
UploadBodies ==
    {[NoBody EXCEPT !.length = "n", !.raw = "multipart"],
     [NoBody EXCEPT !.length = "n", !.raw = "multipart", !.host_name = "host"],
     [NoBody EXCEPT !.length = "bad", !.raw = "multipart"],
     [NoBody EXCEPT !.length = "absent", !.raw = "multipart"],
     NoBody}

\* A request of HTTP/1.1 and of ordinary size.
Request(method, path, key, origin, q, top_k, threshold, body) ==
    [method |-> method, path |-> path, key |-> key, origin |-> origin,
     q |-> q, top_k |-> top_k, threshold |-> threshold, body |-> body,
     version |-> "HTTP/1.1", size |-> "ok"]

NoRequest == Request("", "", Absent, Absent, <<>>, Absent, Absent, NoBody)

StreamQueries ==
    {<<HI, Absent, Absent>>, <<<<>>, Absent, Absent>>, <<HI, "3", "0.5">>,
     <<HI, "abc", Absent>>, <<HI, "0.5", Absent>>, <<HI, Absent, "abc">>}

\* Request lines of two words or of a version other than HTTP/1.1 and
\* HTTP/0.9, and requests too long.
OtherRequestLines ==
    {[Request("GET", p, k, o, <<>>, Absent, Absent, NoBody) EXCEPT !.version = ""] :
        p \in {"/health", "/nope"}, k \in Keys, o \in Origins}
    \cup {[Request("GET", "/api/chat/stream", k, o, HI, Absent, Absent, NoBody)
              EXCEPT !.version = ""] : k \in Keys, o \in Origins}
    \cup {[Request(m, "/health", Absent, o, <<>>, Absent, Absent, NoBody)
              EXCEPT !.version = v] :
            m \in {"GET", "POST", "HEAD"}, o \in Origins,
            v \in {"", "HTTP/1.0"} \cup BadVersions \cup LaterVersions}
    \cup {[Request(m, "/health", Absent, o, <<>>, Absent, Absent, NoBody)
              EXCEPT !.size = s] :
            m \in {"GET", "HEAD"}, o \in Origins, s \in {"line", "header"}}

\* The requests of HTTP/1.1: every route under the methods of the Handler and
\* under others.
Http11Requests ==
    {Request("OPTIONS", p, Absent, o, <<>>, Absent, Absent, NoBody) :
        p \in {"/api/chat", "/nope"}, o \in Origins}
    \cup {Request("GET", p, k, o, <<>>, Absent, Absent, NoBody) :
        p \in {"/health", "/chat", "/api/chat", "/nope"}, k \in Keys, o \in Origins}
    \cup {Request("GET", "/api/chat/stream", k, o, s[1], s[2], s[3], NoBody) :
        k \in Keys, o \in Origins, s \in StreamQueries}
    \cup {Request("POST", "/api/chat", k, o, <<>>, Absent, Absent, b) :
        k \in Keys, o \in Origins, b \in ChatBodies}
    \cup {Request("POST", "/api/upload", k, o, <<>>, Absent, Absent, b) :
        k \in Keys, o \in Origins, b \in UploadBodies}
    \cup {Request("POST", p, k, o, <<>>, Absent, Absent, NoBody) :
        p \in {"/health", "/api/chat/stream"}, k \in Keys, o \in Origins}
    \cup {Request(mp[1], mp[2], k, o, <<>>, Absent, Absent, NoBody) :
        mp \in {<<"HEAD", "/health">>, <<"PUT", "/api/chat">>, <<"DELETE", "/api/upload">>},
        k \in Keys, o \in Origins}
    \cup {Request(m, p, Absent, o, <<>>, Absent, Absent, NoBody) :
        m \in {"GET", "HEAD"}, p \in MalformedPaths, o \in Origins}

\* Every request of Http11Requests also comes with HTTP/0.9 as the third word
\* of its request line ("POST /api/chat HTTP/0.9"), which parse_request
\* accepts under every method.
Requests ==
    Http11Requests
    \cup {[r EXCEPT !.version = "HTTP/0.9"] : r \in Http11Requests}
    \cup OtherRequestLines

\* What the vector store does during one request of the server.
ServerRagOutcomes ==
    {<<RagFail("transport"), RagFail("transport")>>,
     <<RagFail("transport"), RagOk(<<R1, R2>>)>>,
     <<RagOk(<<R2, R1>>), RagFail("transport")>>}

\* " ok\n": a text with white space around it.
PADDED == <<32, 111, 107, 10>>

LlmOutcomes ==
    {[kind |-> "ok", text |-> PADDED, usage |-> "usage", error |-> ""],
     [kind |-> "ok", text |-> None, usage |-> "usage", error |-> ""],
     [kind |-> "raise", text |-> <<>>, usage |-> "", error |-> "APIError"]}

NoText == [value |-> [nothing |-> TRUE], spelling |-> ""]

\* What the POST to /api/vs/index comes to: no response, a 502 with an HTML
\* body, or a JSON body spelt as json.dumps spells it or otherwise ("compact":
\* no blank after "," and ":").
UploadOutcomes ==
    {[kind |-> "transport", status |-> 0, text |-> NoText],
     [kind |-> "not_json", status |-> 502, text |-> [NoText EXCEPT !.spelling = "html"]]}
    \cup {[kind |-> "json", status |-> 200,
           text |-> [value |-> [ok |-> TRUE, indexed |-> TRUE], spelling |-> s]] :
            s \in {"dumps", "compact"}}
    \cup {[kind |-> "json", status |-> 422,
           text |-> [value |-> [ok |-> FALSE, error |-> "no files"], spelling |-> s]] :
            s \in {"dumps", "compact"}}
    \cup {[kind |-> "json", status |-> 500,
           text |-> [value |-> [ok |-> FALSE, error |-> "index failed"], spelling |-> "dumps"]]}

Ev(kind, text, error) == [kind |-> kind, text |-> text, error |-> error]

\* What the LLM stream does during one request of the server.
ServerStreamScripts ==
    {<<Ev("raise", "", "APIConnectionError")>>,
     <<Ev("open", "", ""), Ev("end", "", "")>>,
     <<Ev("open", "", ""), Ev("text", "tok-a", ""), Ev("no_delta", "", ""),
       Ev("text", "tok-b", ""), Ev("end", "", "")>>,
     <<Ev("open", "", ""), Ev("text", "tok-b", ""), Ev("raise", "", "APIError")>>}

(***************************************************************************)
(* The server: one request at a time (HTTPServer.serve_forever)            *)
(***************************************************************************)
Init ==
    /\ env \in Envs
    /\ client_handle = FALSE
    /\ pc = "idle"
    /\ req = NoRequest
    /\ resp = NoResponse
    /\ calls = NoCalls
    /\ rag = NoRag
    /\ gen = [at |-> "none", chunks |-> 0]
    /\ frames = <<>>
    /\ written = <<>>
    /\ uncaught = ""
    /\ args = <<>>
    /\ ret = <<>>

\* A request arrives and is parsed (handle_one_request).
Receive ==
    /\ pc = "idle"
    /\ \E r \in Requests : req' = r
    /\ pc' = "received"
    /\ UNCHANGED <<env, client_handle, resp, calls, rag, gen, frames, written,
                   uncaught, args, ret>>

\* The handler ran and left h behind.
Handled(h) ==
    /\ pc' = IF h.crashed THEN "crashed" ELSE "done"
    /\ uncaught' = h.exception
    /\ resp' = h.resp
    /\ client_handle' = h.handle
    /\ calls' = h.calls
    /\ rag' = h.rag
    /\ frames' = h.frames
    /\ written' = h.written
    /\ gen' = [at |-> h.at, chunks |-> 0]
    /\ UNCHANGED <<env, req, args, ret>>

\* The base class answers the request itself; no do_<method> runs.
SendError ==
    /\ pc = "received"
    /\ ~parse_request(req) \/ req.method \notin HandlerMethods
    /\ Handled(handle_error(client_handle, req))

Options ==
    /\ pc = "received"
    /\ parse_request(req)
    /\ req.method = "OPTIONS"
    /\ Handled(do_OPTIONS(env, client_handle, req))

Get ==
    /\ pc = "received"
    /\ parse_request(req)
    /\ req.method = "GET"
    /\ \E ro \in ServerRagOutcomes, script \in ServerStreamScripts, b \in 0..MaxWrites :
           Handled(do_GET(env, client_handle, req, ro, script, b))

Post ==
    /\ pc = "received"
    /\ parse_request(req)
    /\ req.method = "POST"
    /\ \E ro \in ServerRagOutcomes, primary \in LlmOutcomes, fallback \in LlmOutcomes,
          up \in UploadOutcomes :
           Handled(do_POST(env, client_handle, req, ro, primary, fallback, up))

\* The connection is closed; the server waits for the next request.  Of the
\* state of the handler only the global _client outlives it.
Close ==
    /\ pc \in {"done", "crashed"}
    /\ pc' = "idle"
    /\ req' = NoRequest
    /\ resp' = NoResponse
    /\ calls' = NoCalls
    /\ rag' = NoRag
    /\ gen' = [at |-> "none", chunks |-> 0]
    /\ frames' = <<>>
    /\ written' = <<>>
    /\ uncaught' = ""
    /\ UNCHANGED <<env, client_handle, args, ret>>

Next == Receive \/ SendError \/ Options \/ Get \/ Post \/ Close

Spec == Init /\ [][Next]_vars

(***************************************************************************)
(* The auth gate                                                           *)
(***************************************************************************)
\* The handler of the request in req has ended.
Ended == pc \in {"done", "crashed"}

\* The request went to do_OPTIONS, do_GET or do_POST.
ReachedHandler == parse_request(req) /\ req.method \in HandlerMethods

\* The answer has a status line and headers: the request is not HTTP/0.9.
HasHead == request_version(req) # "HTTP/0.9"

\* The status the caller is sent: code on the status line of an answer that
\* has one, none for a request of HTTP/0.9.
StatusSent(code) == resp.status = (IF HasHead THEN code ELSE 0)

\* The request is one of the route: its request line and headers parse.
IsChat == ReachedHandler /\ req.method = "POST" /\ req.path = "/api/chat"
IsStream == ReachedHandler /\ req.method = "GET" /\ req.path = "/api/chat/stream"
IsUpload == ReachedHandler /\ req.method = "POST" /\ req.path = "/api/upload"

\* The X-LOT-KEY header is there and holds the configured secret.
KeyMatches == req.key # Absent /\ req.key = env.CHAT_API_SECRET

Unauthorized == resp.status = 401 /\ resp.body = [error |-> "unauthorized"]

\* C1: with CHAT_API_SECRET configured, a request (of HTTP/1.x, so that a
\* status can be sent) to POST /api/chat, GET /api/chat/stream or
\* POST /api/upload without the matching X-LOT-KEY is answered 401 and no
\* upstream call is made for it (no search POST, no LLM call, no upload
\* forward).
C1_AuthOnEveryApiRoute ==
    (Ended /\ env.CHAT_API_SECRET # "" /\ (IsChat \/ IsStream \/ IsUpload) /\ HasHead
     /\ ~KeyMatches)
        => (resp.status = 401 /\ calls = NoCalls)

\* C2 as claimed: on POST /api/chat and GET /api/chat/stream, no request is
\* turned away by the auth gate when CHAT_API_SECRET is unset; when it is set,
\* a request whose X-LOT-KEY is missing or different gets status 401 with
\* {error: "unauthorized"}, and a request with the matching value is let
\* through.
C2_ChatAuthGate ==
    (Ended /\ (IsChat \/ IsStream)) =>
        /\ env.CHAT_API_SECRET = "" => resp.body # [error |-> "unauthorized"]
        /\ (env.CHAT_API_SECRET # "" /\ ~KeyMatches) => Unauthorized
        /\ (env.CHAT_API_SECRET # "" /\ KeyMatches) =>
              resp.body # [error |-> "unauthorized"]

\* C2: on POST /api/chat and GET /api/chat/stream, no request is turned away
\* by the auth gate when CHAT_API_SECRET is unset; when it is set, a request
\* whose X-LOT-KEY is missing or different is answered {error:
\* "unauthorized"} and nothing is done for it (no search, no LLM call): with
\* status 401 as application/json if the request is of HTTP/1.x, and with that
\* body alone, no status line and no header, if it is of HTTP/0.9; a request
\* with the matching value is let through.
C2_AuthGateSent ==
    (Ended /\ (IsChat \/ IsStream)) =>
        /\ env.CHAT_API_SECRET = "" => resp.body # [error |-> "unauthorized"]
        /\ (env.CHAT_API_SECRET # "" /\ ~KeyMatches) =>
              /\ pc = "done"
              /\ resp.body = [error |-> "unauthorized"]
              /\ calls = NoCalls /\ ~rag.called /\ frames = <<>>
              /\ HasHead => (Unauthorized /\ resp.content_type = "application/json")
              /\ ~HasHead => (resp.status = 0 /\ resp.content_type = "")
        /\ (env.CHAT_API_SECRET # "" /\ KeyMatches) =>
              resp.body # [error |-> "unauthorized"]

\* A POST /api/chat HTTP/1.1 with a wrong key is answered 401.
C2_Witness ==
    /\ pc = "done" /\ IsChat /\ HasHead /\ env.CHAT_API_SECRET = "s3cret"
    /\ req.key = "wrong" /\ req.body.message = HI /\ req.body.length = "n"
    /\ Unauthorized

(***************************************************************************)
(* Failures                                                                *)
(***************************************************************************)
\* C4: no handler ends with an exception that nothing catches, and whatever
\* it sends is JSON or, once the stream has started, ends in-band.
C4_FailuresAreJson ==
    /\ pc # "crashed"
    /\ (pc = "done" /\ resp.status >= 400) =>
          (resp.content_type = "application/json" /\ "error" \in DOMAIN resp.body)
    /\ (pc = "done" /\ IsStream /\ resp.status = 200 /\ gen.at = "done") =>
          frames[Len(frames)].type \in {"newline", "error"}

(***************************************************************************)
(* The empty question                                                      *)
(***************************************************************************)
WhitespaceOnly(m) == m # None /\ \A i \in 1..Len(m) : m[i] \in Whitespace

\* The body is a JSON object (or no body at all, read as {}) whose message is
\* empty, absent, null or whitespace only.
EmptyMessage ==
    \/ req.body.length \in {"absent", "0"}
    \/ /\ req.body.length = "n" /\ req.body.json = "object" /\ req.body.message_is_str
       /\ (req.body.message = None \/ WhitespaceOnly(req.body.message))

\* C5 as claimed: a POST /api/chat that passes the auth gate with an empty,
\* absent or whitespace-only message is answered with status 200 and
\* {ok: true, answer: "שאלה ריקה.", sources: []}, and neither a search nor an
\* LLM call is made for it.
C5_EmptyQuestion ==
    (Ended /\ IsChat /\ (env.CHAT_API_SECRET = "" \/ KeyMatches) /\ EmptyMessage) =>
        /\ pc = "done"
        /\ resp.status = 200
        /\ resp.body = [ok |-> TRUE, answer |-> EMPTY_QUESTION, sources |-> <<>>]
        /\ calls = NoCalls
        /\ ~rag.called

\* C5: a POST /api/chat that passes the auth gate with an empty, absent or
\* whitespace-only message is answered {ok: true, answer: "שאלה ריקה.",
\* sources: []}, and neither a search nor an LLM call is made for it; the
\* answer has status 200 and is application/json if the request is of
\* HTTP/1.x, and is that body alone, with no status line and no header, if
\* the request is of HTTP/0.9.
C5_EmptyQuestionSent ==
    (Ended /\ IsChat /\ (env.CHAT_API_SECRET = "" \/ KeyMatches) /\ EmptyMessage) =>
        /\ pc = "done"
        /\ resp.body = [ok |-> TRUE, answer |-> EMPTY_QUESTION, sources |-> <<>>]
        /\ HasHead => (resp.status = 200 /\ resp.content_type = "application/json")
        /\ ~HasHead => (resp.status = 0 /\ resp.content_type = "")
        /\ calls = NoCalls
        /\ ~rag.called

\* A message of U+00A0 alone, sent with the right key over HTTP/1.1.
C5_Witness ==
    /\ pc = "done" /\ IsChat /\ HasHead
    /\ env.CHAT_API_SECRET = "s3cret" /\ req.key = "s3cret"
    /\ req.body.length = "n" /\ req.body.message = <<160>>
    /\ resp.status = 200 /\ resp.body.answer = EMPTY_QUESTION

(***************************************************************************)
(* llm_answer: primary and fallback                                        *)
(***************************************************************************)
\* The request went as far as llm_answer.
ReachedLlm == Ended /\ IsChat /\ rag.called

\* client() can return the handle in this process.
ClientObtainable == env.OPENAI_API_KEY # "" /\ env.OpenAI

\* The handler answered {ok: false, error} / an answer of llm_answer.
FailureBody == DOMAIN resp.body = {"ok", "error"} /\ resp.body.ok = FALSE
AnswerBody == "answer" \in DOMAIN resp.body /\ resp.body.ok = TRUE

\* C8 as claimed: in llm_answer the fallback chat-completion call is made
\* exactly when the flag selects the fallback or the primary branch raised
\* (a failure to obtain the client included); the primary call is made at
\* most once and only under the flag, the fallback at most once; an exception
\* of the fallback reaches the handler, which answers 500 {ok: false, error}.
C8_FallbackExactlyWhen ==
    ReachedLlm =>
        /\ calls.fallback = 1 <=> (~env.CHAT_USE_RESP \/ calls.primary_raised)
        /\ calls.primary \in {0, 1} /\ (calls.primary = 1 => env.CHAT_USE_RESP)
        /\ calls.fallback \in {0, 1}
        /\ calls.fallback_raised <=> (pc = "done" /\ resp.status = 500 /\ FailureBody)

\* C8: in llm_answer the fallback statement is executed exactly when the flag
\* selects the fallback or the primary branch raised (client() included), and
\* it makes the chat-completion call exactly when client() returns the handle
\* there: with OPENAI_API_KEY or the openai package missing, client() raises
\* again, no chat-completion call is made, and that exception is one of the
\* fallback.  The primary call is made at most once and only under the flag
\* (and then whenever the client is obtained), the fallback at most once.  An
\* exception of the fallback reaches the handler, which answers {ok: false,
\* error}, with status 500 if the request is of HTTP/1.x and with no status
\* line if it is of HTTP/0.9; otherwise the answer of llm_answer is sent
\* (status 200 under HTTP/1.x).
C8_FallbackAttempted ==
    ReachedLlm =>
        /\ calls.fallback_tries = 1 <=> (~env.CHAT_USE_RESP \/ calls.primary_raised)
        /\ calls.primary \in {0, 1} /\ (calls.primary = 1 => env.CHAT_USE_RESP)
        /\ (env.CHAT_USE_RESP /\ ClientObtainable) => calls.primary = 1
        /\ calls.primary_raised => env.CHAT_USE_RESP
        /\ calls.fallback_tries \in {0, 1}
        /\ calls.fallback = (IF calls.fallback_tries = 1 /\ ClientObtainable THEN 1 ELSE 0)
        /\ (calls.fallback_tries = 1 /\ ~ClientObtainable) => calls.fallback_raised
        /\ calls.fallback_raised <=> (pc = "done" /\ StatusSent(500) /\ FailureBody)
        /\ ~calls.fallback_raised => (pc = "done" /\ StatusSent(200) /\ AnswerBody)

\* The primary call raised, and the fallback call was made and answered.
C8_Witness ==
    /\ ReachedLlm /\ HasHead /\ env.CHAT_USE_RESP /\ calls.primary = 1
    /\ calls.primary_raised /\ calls.fallback_tries = 1
    /\ calls.fallback = 1 /\ ~calls.fallback_raised /\ resp.status = 200

(***************************************************************************)
(* CORS                                                                    *)
(***************************************************************************)
\* C9 as claimed: of every response (every route and method, error responses
\* and the OPTIONS preflight included): with an allow-list configured,
\* Access-Control-Allow-Origin is sent only for a request whose Origin is in
\* the list and then echoes it, with Vary: Origin; a request with another or
\* no Origin gets no such header.  With no list it is "*".
C9_Cors ==
    pc = "done" =>
        /\ env.CORS_ALLOW # <<>> =>
              /\ resp.acao # Absent =>
                    (InList(req.origin, env.CORS_ALLOW) /\ resp.acao = req.origin /\ resp.vary)
              /\ InList(req.origin, env.CORS_ALLOW) => resp.acao = req.origin
        /\ env.CORS_ALLOW = <<>> => resp.acao = "*"

\* C9: of every response that do_OPTIONS, do_GET or do_POST sends to a
\* request of HTTP/1.x (every route, error responses and the preflight
\* included): with an allow-list configured, Access-Control-Allow-Origin is
\* sent only for a request whose Origin is in the list and then echoes it,
\* with Vary: Origin; with no list it is "*".  The answers of the base class
\* (400, 414, 431, 505, and 501 for any other method) and every answer to a
\* request of HTTP/0.9, which has no headers at all, carry no
\* Access-Control-Allow-Origin and no Vary, whatever the configuration and
\* the Origin.
C9_CorsOfHandler ==
    pc = "done" =>
        /\ (ReachedHandler /\ HasHead /\ env.CORS_ALLOW # <<>>) =>
              /\ resp.acao # Absent =>
                    (InList(req.origin, env.CORS_ALLOW) /\ resp.acao = req.origin /\ resp.vary)
              /\ InList(req.origin, env.CORS_ALLOW) => resp.acao = req.origin
        /\ (ReachedHandler /\ HasHead /\ env.CORS_ALLOW = <<>>) => resp.acao = "*"
        /\ (~ReachedHandler \/ ~HasHead) => (resp.acao = Absent /\ ~resp.vary)
        /\ (~ReachedHandler /\ HasHead) => resp.status \in {400, 414, 431, 501}

C9_Witness ==
    /\ pc = "done" /\ env.CORS_ALLOW = <<GOOD_ORIGIN>> /\ req.origin = EVIL_ORIGIN
    /\ req.method = "OPTIONS" /\ resp.status = 204 /\ resp.acao = Absent

(***************************************************************************)
(* The upload proxy                                                        *)
(***************************************************************************)
\* The request the proxy made to /api/vs/index, and what came of it.
Forwarded == calls.upload[1]
Upstream == calls.upload[1].response

\* The handler of a POST /api/upload has ended.
UploadEnded == Ended /\ IsUpload

\* The ingestion endpoint returned a response to the forwarded request.
UpstreamAnswered == UploadEnded /\ calls.upload # <<>> /\ Upstream.kind # "transport"

\* The caller got the proxy's own 500 {ok: false, error}.
ProxyErrors ==
    {"requests not installed", "ValueError: int(Content-Length)", "ConnectionError",
     "JSONDecodeError"}
OwnFailure ==
    /\ resp.status = 500
    /\ resp.body \in {[ok |-> FALSE, error |-> text] : text \in ProxyErrors}

\* The text of the body the caller was sent.
BodySent == json_dumps(resp.body)

\* C12: whenever the ingestion endpoint returns a response to the upload of a
\* request (of HTTP/1.x, so that a status can be relayed), the proxy has
\* forwarded the body unmodified with every request header except Host
\* (X-LOT-KEY being the service's own key if one is configured), and the
\* caller gets the upstream status and the upstream body unchanged, whatever
\* they are; the proxy's own 500 is sent only when no upstream response came.
C12_RelayedUnchanged ==
    /\ (UpstreamAnswered /\ HasHead) =>
          /\ Forwarded.data = req.body.raw
          /\ Forwarded.headers =
                [host |-> Absent,
                 key |-> IF env.VS_API_KEY # "" THEN env.VS_API_KEY ELSE req.key,
                 origin |-> req.origin,
                 content_length |-> req.body.length]
          /\ resp.status = Upstream.status
          /\ BodySent = Upstream.text
    /\ (UploadEnded /\ HasHead /\ OwnFailure) => ~UpstreamAnswered

(***************************************************************************)
(* rag_search on its own                                                   *)
(***************************************************************************)
\* The server's variables while a function is checked on its own.
ServerAtRest ==
    /\ req = NoRequest
    /\ resp = NoResponse
    /\ calls = NoCalls
    /\ rag = NoRag
    /\ uncaught = ""

\* The environments that differ in what `fields` hold only.
EnvsVarying(fields) ==
    {e \in Envs :
        /\ "CHAT_API_SECRET" \notin fields => e.CHAT_API_SECRET = ""
        /\ "CORS_ALLOW" \notin fields => e.CORS_ALLOW = <<>>
        /\ "CHAT_USE_RESP" \notin fields => e.CHAT_USE_RESP
        /\ "OPENAI_API_KEY" \notin fields => e.OPENAI_API_KEY = "sk-key"
        /\ "OpenAI" \notin fields => e.OpenAI
        /\ "requests" \notin fields => e.requests
        /\ "VS_API_KEY" \notin fields => e.VS_API_KEY = ""}

RagOutcomes ==
    {RagFail(k) : k \in RagFailures} \cup {RagOk(l) : l \in ResultLists}

RagInit ==
    /\ env \in EnvsVarying({"requests", "VS_API_KEY"})
    /\ client_handle = FALSE
    /\ pc = "call"
    /\ args \in [outcomes : [1..RAG_ATTEMPTS -> RagOutcomes]]
    /\ ret = <<>>
    /\ gen = [at |-> "none", chunks |-> 0]
    /\ frames = <<>>
    /\ written = <<>>
    /\ ServerAtRest

RagCall ==
    /\ pc = "call"
    /\ ret' = rag_search(env, args.outcomes)
    /\ pc' = "return"
    /\ UNCHANGED <<env, client_handle, req, resp, calls, rag, gen, frames, written,
                   uncaught, args>>

RagNext == RagCall

SpecRag == RagInit /\ [][RagNext]_vars

RagFailed(i) == args.outcomes[i].kind \in RagFailures

\* C3: a rag_search call whose two attempts both fail (transport error,
\* non-2xx status, a body that is no JSON, a success flag absent or false)
\* makes exactly two POSTs, returns [] and does not raise; a first or second
\* attempt that succeeds returns that attempt's results, and no POST follows.
C3_RagTwoAttempts ==
    (pc = "return" /\ env.requests) =>
        /\ ~ret.raised
        /\ (RagFailed(1) /\ RagFailed(2)) => (ret.attempts = 2 /\ ret.value = <<>>)
        /\ ~RagFailed(1) => (ret.attempts = 1 /\ ret.value = args.outcomes[1].results)
        /\ (RagFailed(1) /\ ~RagFailed(2)) =>
              (ret.attempts = 2 /\ ret.value = args.outcomes[2].results)

C3_Witness ==
    /\ pc = "return" /\ env.requests
    /\ args.outcomes[1].kind = "status" /\ args.outcomes[2].kind = "flag_absent"
    /\ ret.attempts = 2 /\ ret.value = <<>>

(***************************************************************************)
(* llm_stream on its own, one resumption at a time                         *)
(***************************************************************************)
StreamInit ==
    /\ env \in EnvsVarying({"OPENAI_API_KEY", "OpenAI"})
    /\ client_handle \in {h \in BOOLEAN : h => (env.OPENAI_API_KEY # "" /\ env.OpenAI)}
    /\ pc = "streaming"
    /\ args \in [question : {HI}, results : ResultLists]
    /\ ret = <<>>
    /\ gen = [at |-> "start", chunks |-> 0, fed |-> <<>>]
    /\ frames = <<>>
    /\ written = <<>>
    /\ ServerAtRest

\* The generator is resumed and meets ev; it runs to its next yield or returns.
Resumed(ev, n) ==
    /\ pc = "streaming"
    /\ gen.at # "done"
    /\ ev \in EventsAt(gen.at)
    /\ ev.kind \in {"text", "no_delta"} => gen.chunks < MaxChunks
    /\ gen' = [at |-> n.at,
               chunks |-> IF gen.at = "iter" THEN gen.chunks + 1 ELSE gen.chunks,
               fed |-> IF ev.kind = "resume" THEN gen.fed ELSE Append(gen.fed, ev)]
    /\ frames' = frames \o n.out
    /\ client_handle' = n.handle

\* for chunk in llm_stream(q, results): self.wfile.write(chunk); flush()
StreamWrite ==
    /\ \E ev \in OpenEvents \cup ChunkEvents \cup {Resume} :
          \E n \in {llm_stream_next(env, client_handle, args.results, gen.at, ev)} :
              /\ Resumed(ev, n)
              /\ written' = written \o n.out
              /\ pc' = IF n.at = "done" THEN "done" ELSE "streaming"
    /\ UNCHANGED <<env, req, resp, calls, rag, uncaught, args, ret>>

\* except BrokenPipeError: break -- the generator is left at its yield.
StreamBrokenPipe ==
    /\ \E ev \in OpenEvents \cup ChunkEvents \cup {Resume} :
          \E n \in {llm_stream_next(env, client_handle, args.results, gen.at, ev)} :
              /\ Resumed(ev, n)
              /\ n.out # <<>>
              /\ written' = written
              /\ pc' = "broken"
    /\ UNCHANGED <<env, req, resp, calls, rag, uncaught, args, ret>>

StreamNext == StreamWrite \/ StreamBrokenPipe

SpecStream == StreamInit /\ [][StreamNext]_vars

Terminal(f) == f.type \in {"newline", "error"}

IsText(f) == f.type = "text"
IsTextEvent(ev) == ev.kind = "text"

\* The text fragments among the frames / the upstream chunks, in order.
TextsOfFrames(fs) ==
    LET ts == SelectSeq(fs, IsText) IN [i \in 1..Len(ts) |-> ts[i].text]
TextsOfEvents(evs) ==
    LET ts == SelectSeq(evs, IsTextEvent) IN [i \in 1..Len(ts) |-> ts[i].text]

\* C6: what llm_stream has yielded is at any time: the meta frame first and
\* once; then the upstream text fragments in the order of their arrival; then
\* at most one terminal frame, the newline (the upstream stream ended) or the
\* error frame (client(), create() or the iteration raised), after which
\* nothing is yielded; a run that returned has yielded exactly one of the two.
C6_FrameSequence ==
    pc \in {"streaming", "done", "broken"} =>
        LET n == Len(frames) IN
        /\ gen.at # "start" => (n >= 1 /\ frames[1].type = "meta")
        /\ \A i \in 2..n : frames[i].type # "meta"
        /\ \A i \in 1..(n - 1) : ~Terminal(frames[i])
        /\ TextsOfFrames(frames) = TextsOfEvents(gen.fed)
        /\ gen.at = "done" => (n >= 2 /\ Terminal(frames[n]))
        /\ (n >= 1 /\ frames[n].type = "newline") =>
              gen.fed[Len(gen.fed)].kind = "end"
        /\ (n >= 1 /\ frames[n].type = "error") =>
              \/ ~ClientObtainable /\ frames[n].detail = client(env, FALSE).error
              \/ /\ gen.fed[Len(gen.fed)].kind = "raise"
                 /\ frames[n].detail = gen.fed[Len(gen.fed)].error
        /\ (gen.fed # <<>> /\ gen.fed[Len(gen.fed)].kind \in {"end", "raise"}) =>
              Terminal(frames[n])

C6_Witness ==
    /\ pc = "done" /\ gen.at = "done" /\ Len(frames) = 4
    /\ frames[2].text = "tok-b" /\ frames[3].text = "tok-a"
    /\ frames[4] = ErrorFrame("APIError")
    /\ written = frames

\* C7: the first frame of the stream is the meta frame, and its sources are
\* the results llm_stream was given, one entry each, in their order, with
\* doc_id, filename and score and nothing else -- whether the LLM call fails
\* later or not, and for an empty result list too.
C7_MetaFirst ==
    (pc \in {"streaming", "done", "broken"} /\ gen.at # "start") =>
        /\ frames # <<>>
        /\ frames[1].type = "meta"
        /\ Len(frames[1].sources) = Len(args.results)
        /\ \A i \in 1..Len(args.results) :
              /\ DOMAIN frames[1].sources[i] = {"doc_id", "filename", "score"}
              /\ frames[1].sources[i].doc_id = args.results[i].doc_id
              /\ frames[1].sources[i].filename = args.results[i].filename
              /\ frames[1].sources[i].score = args.results[i].score

C7_Witness ==
    /\ pc = "done" /\ args.results = <<R2, R1>>
    /\ Len(frames) = 2 /\ frames[2].type = "error"
    /\ Len(frames[1].sources) = 2 /\ frames[1].sources[1].doc_id = R2.doc_id

(***************************************************************************)
(* build_context on its own                                                *)
(***************************************************************************)
\* The longest result list of mixed entries.
MaxCtxMixed == 3

\* The longest result list.
MaxCtxResults == 13

\* A result whose chunk is as short as a chunk gets: "[מקור: a]\n\n".
TINY == [doc_id |-> None, filename |-> <<97>>, score |-> 5, excerpt |-> None, tags |-> None]

\* A result with neither filename nor doc_id and a blank excerpt.
R3 == [doc_id |-> None, filename |-> <<>>, score |-> 1, excerpt |-> <<32, 32>>, tags |-> None]

CtxPool == {TINY, R1, R2, R3}

Repeat(r, n) == [i \in 1..n |-> r]

\* Every short list, and the long lists of n tiny results and one more.
CtxLists ==
    ListsUpTo(CtxPool, MaxCtxMixed)
    \cup {Repeat(TINY, n) \o tail :
            n \in (MaxCtxMixed + 1)..(MaxCtxResults - 1), tail \in ListsUpTo(CtxPool, 1)}
    \cup {Repeat(TINY, MaxCtxResults)}

CtxBudgets == {0, 12, 25, 40, 143, 3500}

CtxInit ==
    /\ env \in EnvsVarying({})
    /\ client_handle = FALSE
    /\ pc = "call"
    /\ args \in [results : CtxLists, max_chars : CtxBudgets]
    /\ ret = <<>>
    /\ gen = [at |-> "none", chunks |-> 0]
    /\ frames = <<>>
    /\ written = <<>>
    /\ ServerAtRest

BuildContext ==
    /\ pc = "call"
    /\ ret' = build_context(args.results, args.max_chars)
    /\ pc' = "return"
    /\ UNCHANGED <<env, client_handle, req, resp, calls, rag, gen, frames, written,
                   uncaught, args>>

CtxNext == BuildContext

SpecCtx == CtxInit /\ [][CtxNext]_vars

\* len of the chunks of the first k results, taken together.
RECURSIVE ChunksLen(_, _)
ChunksLen(results, k) ==
    IF k = 0 THEN 0 ELSE ChunksLen(results, k - 1) + Len(chunk_of(results[k]))

\* The number of leading results whose chunks fit the budget together.
Fitting(results, max_chars) ==
    CHOOSE k \in 0..Len(results) :
        /\ ChunksLen(results, k) <= max_chars
        /\ k < Len(results) => ChunksLen(results, k + 1) > max_chars

LongestChunk(results) ==
    CHOOSE m \in {Len(chunk_of(results[i])) : i \in 1..Len(results)} :
        \A i \in 1..Len(results) : Len(chunk_of(results[i])) <= m

\* C10 as it was stated: the context of a non-empty result list is never
\* longer than the budget and one chunk more.
C10_BudgetPlusOneChunk ==
    (pc = "return" /\ args.results # <<>>) =>
        Len(ret) <= args.max_chars + LongestChunk(args.results)

\* C10: the context of an empty result list is the placeholder; that of any
\* other list is the chunks of its first k results, in their order and joined
\* by "\n", where k is the number of leading results whose chunks fit the
\* budget together (every later result is left out, fitting or not).  The
\* chunks total at most the budget, and the context is at most the budget and
\* one separator for each chunk after the first.
C10_ContextPrefix ==
    pc = "return" =>
        /\ args.results = <<>> => ret = NO_CONTEXT
        /\ args.results # <<>> =>
              LET k == Fitting(args.results, args.max_chars) IN
              /\ ret = join(NL, [i \in 1..k |-> chunk_of(args.results[i])])
              /\ ChunksLen(args.results, k) <= args.max_chars
              /\ Len(ret) = ChunksLen(args.results, k) + (IF k = 0 THEN 0 ELSE k - 1)
              /\ Len(ret) <= args.max_chars + (IF k = 0 THEN 0 ELSE k - 1)

\* A later result that would fit is left out: R3 does not fit, TINY would.
C10_Witness ==
    /\ pc = "return" /\ args.results = <<R1, R3, TINY>> /\ args.max_chars = 25
    /\ ret = chunk_of(R1)

(***************************************************************************)
(* compose_messages on its own                                             *)
(***************************************************************************)
\* The persona: "אתה מומחה רב-תחומי במקרקעין עבור LOTL. ..." (682 code points).
SYSTEM_HE ==
    <<1488, 1514, 1492, 32, 1502, 1493, 1502, 1495, 1492, 32, 1512, 1489,
      45, 1514, 1495, 1493, 1502, 1497, 32, 1489, 1502, 1511, 1512, 1511,
      1506, 1497, 1503, 32, 1506, 1489, 1493, 1512, 32, 76, 79, 84,
      76, 46, 10, 1492, 1514, 1488, 1501, 32, 1488, 1514, 32, 1492,
      1499, 1493, 1489, 1506, 32, 1492, 1502, 1511, 1510, 1493, 1506, 1497,
      32, 1500, 1514, 1493, 1499, 1503, 32, 1492, 1513, 1488, 1500, 1492,
      58, 10, 45, 32, 1513, 1502, 1488, 1497, 32, 1502, 1511, 1512,
      1511, 1506, 1497, 1503, 58, 32, 1492, 1506, 1512, 1499, 1493, 1514,
      32, 1513, 1493, 1493, 1497, 44, 32, 1506, 1505, 1511, 1488, 1493,
      1514, 32, 1492, 1513, 1493, 1493, 1488, 1492, 44, 32, 1514, 1511,
      1497, 1504, 1492, 32, 1513, 1502, 1488, 1497, 1514, 46, 10, 45,
      32, 1488, 1491, 1512, 1497, 1499, 1500, 47, 1502, 1514, 1499, 1504,
      1503, 58, 32, 1497, 1497, 1506, 1493, 1491, 1497, 32, 1511, 1512,
      1511, 1506, 44, 32, 1511, 1493, 1493, 1497, 32, 1489, 1504, 1497,
      1497, 1503, 44, 32, 1494, 1499, 1493, 1497, 1493, 1514, 32, 1489,
      1504, 1497, 1497, 1492, 44, 32, 1514, 1489, 34, 1506, 1493, 1514,
      46, 10, 45, 32, 1506, 1493, 34, 1491, 32, 1502, 1511, 1512,
      1511, 1506, 1497, 1503, 47, 1514, 1499, 1504, 1493, 1503, 58, 32,
      1492, 1497, 1514, 1512, 1497, 1501, 44, 32, 1495, 1512, 1497, 1490,
      1493, 1514, 44, 32, 1492, 1500, 1497, 1499, 1497, 1501, 32, 1505,
      1496, 1496, 1493, 1496, 1493, 1512, 1497, 1497, 1501, 44, 32, 1505,
      1497, 1499, 1493, 1504, 1497, 1501, 32, 1502, 1513, 1508, 1496, 1497,
      1497, 1501, 46, 10, 45, 32, 1502, 1493, 1491, 1491, 47, 1511,
      1491, 1505, 1496, 1512, 58, 32, 1490, 1493, 1513, 1497, 1501, 47,
      1495, 1500, 1511, 1493, 1514, 44, 32, 1502, 1491, 1497, 1491, 1493,
      1514, 44, 32, 1502, 1508, 1493, 1514, 46, 10, 45, 32, 1502,
      1497, 1505, 1493, 1497, 32, 1502, 1511, 1512, 1511, 1506, 1497, 1503,
      58, 32, 1502, 1505, 32, 1512, 1499, 1497, 1513, 1492, 44, 32,
      1513, 1489, 1495, 44, 32, 1492, 1497, 1496, 1500, 1497, 32, 1492,
      1513, 1489, 1495, 1492, 46, 10, 1499, 1500, 32, 1514, 1513, 1493,
      1489, 1492, 32, 1514, 1497, 1513, 1506, 1503, 32, 1506, 1500, 32,
      1502, 1511, 1493, 1512, 1493, 1514, 32, 1513, 1504, 1513, 1500, 1508,
      1493, 32, 1502, 1492, 1502, 1488, 1490, 1512, 1497, 1501, 32, 40,
      82, 65, 71, 41, 46, 32, 1499, 1488, 1513, 1512, 32, 1488,
      1497, 1503, 32, 1512, 1488, 1497, 1492, 32, 1502, 1505, 1508, 1511,
      1514, 44, 32, 1499, 1514, 1493, 1489, 58, 32, 39, 1506, 1500,
      32, 1508, 1497, 32, 1492, 1497, 1491, 1493, 1506, 32, 1500, 1497,
      32, 1499, 1506, 1514, 44, 32, 1497, 1497, 1514, 1499, 1503, 32,
      1495, 1493, 1505, 1512, 32, 1488, 1493, 32, 1513, 1497, 1504, 1493,
      1497, 32, 1489, 1502, 1497, 1491, 1506, 39, 46, 10, 1488, 1500,
      32, 1514, 1502, 1510, 1497, 1488, 32, 1506, 1493, 1489, 1491, 1493,
      1514, 46, 32, 1499, 1514, 1493, 1489, 32, 1506, 1489, 1512, 1497,
      1514, 32, 1502, 1511, 1510, 1493, 1506, 1497, 1514, 32, 1493, 1514,
      1502, 1510, 1497, 1514, 1497, 1514, 44, 32, 1493, 1492, 1493, 1505,
      1507, 32, 1489, 1505, 1493, 1490, 1512, 1497, 1497, 1501, 32, 1513,
      1502, 1493, 1514, 32, 1511, 1489, 1510, 1497, 1501, 47, 1502, 1505,
      1502, 1499, 1497, 1501, 32, 1499, 1502, 1511, 1493, 1512, 1493, 1514,
      32, 1492, 1497, 1499, 1503, 32, 1513, 1512, 1500, 1493, 1493, 1504,
      1496, 1497, 46, 10, 1492, 1493, 1505, 1507, 32, 39, 1492, 1505,
      1514, 1497, 1497, 1490, 1493, 1497, 1493, 1514, 39, 32, 1489, 1505,
      1493, 1507, 32, 1489, 1502, 1511, 1512, 1492, 32, 1513, 1500, 32,
      1488, 1497, 45, 1493, 1491, 1488, 1493, 1514, 32, 1488, 1493, 32,
      1513, 1493, 1504, 1493, 1514, 32, 1489, 1497, 1503, 32, 1502, 1511,
      1493, 1512, 1493, 1514, 46, 10, 1488, 1497, 1503, 32, 1500, 1512,
      1488, 1493, 1514, 32, 1489, 1488, 1502, 1493, 1512, 32, 1497, 1497,
      1506, 1493, 1509, 32, 1502, 1513, 1508, 1496, 1497, 47, 1513, 1502,
      1488, 1493, 1514, 32, 1502, 1495, 1497, 1497, 1489, 46>>

\* "שאלה: {question}\n\nמקטעי רקע רלוונטיים (עד {n}):\n{context}\n\nהנחיות ניסוח: ..."
TEMPLATE_HE ==
    <<1513, 1488, 1500, 1492, 58, 32, 123, 113, 117, 101, 115, 116,
      105, 111, 110, 125, 10, 10, 1502, 1511, 1496, 1506, 1497, 32,
      1512, 1511, 1506, 32, 1512, 1500, 1493, 1493, 1504, 1496, 1497, 1497,
      1501, 32, 40, 1506, 1491, 32, 123, 110, 125, 41, 58, 10,
      123, 99, 111, 110, 116, 101, 120, 116, 125, 10, 10, 1492,
      1504, 1495, 1497, 1493, 1514, 32, 1504, 1497, 1505, 1493, 1495, 58,
      10, 45, 32, 1506, 1504, 1492, 32, 1489, 1514, 1502, 1510, 1497,
      1514, 44, 32, 1489, 1502, 1489, 1504, 1492, 32, 1504, 1511, 1493,
      1491, 1514, 1497, 32, 1489, 1512, 1493, 1512, 46, 10, 45, 32,
      1510, 1497, 1497, 1503, 32, 1502, 1511, 1493, 1512, 1493, 1514, 32,
      1489, 1511, 1510, 1512, 1492, 32, 40, 1513, 1501, 32, 1511, 1493,
      1489, 1509, 47, 1502, 1505, 1502, 1498, 41, 46, 10, 45, 32,
      1488, 1501, 32, 1497, 1513, 32, 1508, 1506, 1512, 1497, 1501, 47,
      1505, 1514, 1497, 1512, 1493, 1514, 32, 1489, 1502, 1511, 1493, 1512,
      1493, 1514, 32, 8211, 32, 1492, 1491, 1490, 1513, 32, 1493, 1492,
      1510, 1506, 32, 1491, 1512, 1498, 32, 1489, 1491, 1497, 1511, 1492,
      46, 10>>

\* "question", "n", "context": the replacement fields of TEMPLATE_HE.
FIELD_QUESTION == <<113, 117, 101, 115, 116, 105, 111, 110>>
FIELD_N == <<110>>
FIELD_CONTEXT == <<99, 111, 110, 116, 101, 120, 116>>

\* def build_context(results, max_chars=3500)
DEFAULT_MAX_CHARS == 3500

\* str(n) of a non-negative int, as format() renders {n}.
RECURSIVE str_of(_)
str_of(n) == IF n < 10 THEN <<48 + n>> ELSE str_of(n \div 10) \o <<48 + (n % 10)>>

\* Where the next replacement field opens at or after template[i]; past
\* the end if none does.
field_start(template, i) ==
    IF \E j \in i..Len(template) : template[j] = 123
    THEN CHOOSE j \in i..Len(template) :
            /\ template[j] = 123
            /\ \A k \in i..(j - 1) : template[k] # 123
    ELSE Len(template) + 1

\* The "}" that closes the replacement field opened at template[i].
field_end(template, i) ==
    CHOOSE j \in i..Len(template) :
        /\ template[j] = 125
        /\ \A k \in i..(j - 1) : template[k] # 125

\* template.format(**kw) from template[i] on: literal text is copied, each
\* {name} is replaced by kw[name]; the replacements are not scanned again.
RECURSIVE format(_, _, _)
format(template, i, kw) ==
    LET open == field_start(template, i) IN
    IF open > Len(template) THEN SubSeq(template, i, Len(template))
    ELSE SubSeq(template, i, open - 1)
         \o kw[SubSeq(template, open + 1, field_end(template, open) - 1)]
         \o format(template, field_end(template, open) + 1, kw)

\* The mutant: n counts the snippets that fit the budget.
prompt_n_included(results) == Len(context_loop(results, 1, 0, <<>>, DEFAULT_MAX_CHARS))

\* n=len(results)
prompt_n(results) == Len(results)

compose_messages(question, results) ==
    LET ctx == build_context(results, DEFAULT_MAX_CHARS)
        kw == [name \in {FIELD_QUESTION, FIELD_N, FIELD_CONTEXT} |->
                 IF name = FIELD_QUESTION THEN question
                 ELSE IF name = FIELD_N THEN str_of(prompt_n(results))
                 ELSE ctx]
        prompt == format(TEMPLATE_HE, 1, kw)
    IN <<[role |-> "system", content |-> SYSTEM_HE],
         [role |-> "user", content |-> prompt]>>

\* Lists of results handed to compose_messages.
MaxMsgResults == 3

\* The longest list: its count takes two digits.
MaxMsgLong == 12

\* A result whose chunk alone is over the default budget.
BIG == [doc_id |-> <<100, 57>>, filename |-> <<98, 46, 112>>, score |-> 7,
        excerpt |-> Repeat(120, DEFAULT_MAX_CHARS), tags |-> None]

MsgLists ==
    ListsUpTo({TINY, R1, R2, BIG}, MaxMsgResults)
    \cup {Repeat(TINY, n) : n \in 10..MaxMsgLong}
    \cup {Append(Repeat(TINY, n), BIG) : n \in 10..(MaxMsgLong - 1)}

\* "", "hi", a question that reads like a replacement field ("{n}"), and one
\* with white space around it.
MsgQuestions == {<<>>, HI, <<123, 110, 125>>, <<32, 104, 10>>}

MsgInit ==
    /\ env \in EnvsVarying({})
    /\ client_handle = FALSE
    /\ pc = "call"
    /\ args \in [question : MsgQuestions, results : MsgLists]
    /\ ret = <<>>
    /\ gen = [at |-> "none", chunks |-> 0]
    /\ frames = <<>>
    /\ written = <<>>
    /\ ServerAtRest

ComposeMessages ==
    /\ pc = "call"
    /\ ret' = compose_messages(args.question, args.results)
    /\ pc' = "return"
    /\ UNCHANGED <<env, client_handle, req, resp, calls, rag, gen, frames, written,
                   uncaught, args>>

MsgNext == ComposeMessages

SpecMsg == MsgInit /\ [][MsgNext]_vars

\* The literal text of TEMPLATE_HE around its three fields.
\* "שאלה: "
TEMPLATE_BEFORE_QUESTION == <<1513, 1488, 1500, 1492, 58, 32>>
\* "\n\nמקטעי רקע רלוונטיים (עד "
TEMPLATE_BEFORE_N ==
    <<10, 10, 1502, 1511, 1496, 1506, 1497, 32, 1512, 1511, 1506, 32,
      1512, 1500, 1493, 1493, 1504, 1496, 1497, 1497, 1501, 32, 40, 1506,
      1491, 32>>
\* "):\n"
TEMPLATE_BEFORE_CONTEXT == <<41, 58, 10>>
\* "\n\nהנחיות ניסוח:\n- ...\n"
TEMPLATE_AFTER_CONTEXT ==
    <<10, 10, 1492, 1504, 1495, 1497, 1493, 1514, 32, 1504, 1497, 1505,
      1493, 1495, 58, 10, 45, 32, 1506, 1504, 1492, 32, 1489, 1514,
      1502, 1510, 1497, 1514, 44, 32, 1489, 1502, 1489, 1504, 1492, 32,
      1504, 1511, 1493, 1491, 1514, 1497, 32, 1489, 1512, 1493, 1512, 46,
      10, 45, 32, 1510, 1497, 1497, 1503, 32, 1502, 1511, 1493, 1512,
      1493, 1514, 32, 1489, 1511, 1510, 1512, 1492, 32, 40, 1513, 1501,
      32, 1511, 1493, 1489, 1509, 47, 1502, 1505, 1502, 1498, 41, 46,
      10, 45, 32, 1488, 1501, 32, 1497, 1513, 32, 1508, 1506, 1512,
      1497, 1501, 47, 1505, 1514, 1497, 1512, 1493, 1514, 32, 1489, 1502,
      1511, 1493, 1512, 1493, 1514, 32, 8211, 32, 1492, 1491, 1490, 1513,
      32, 1493, 1492, 1510, 1506, 32, 1491, 1512, 1498, 32, 1489, 1491,
      1497, 1511, 1492, 46, 10>>

\* The number a string of decimal digits stands for.
RECURSIVE DecimalValue(_)
DecimalValue(digits) ==
    IF digits = <<>> THEN 0
    ELSE 10 * DecimalValue(SubSeq(digits, 1, Len(digits) - 1)) + (digits[Len(digits)] - 48)

\* The decimal numeral of n: the digits, without a leading zero, that stand for n.
Numeral(n) ==
    CHOOSE digits \in UNION {[1..k -> 48..57] : k \in 1..2} :
        /\ DecimalValue(digits) = n
        /\ Len(digits) > 1 => digits[1] # 48

\* C11: compose_messages returns exactly two messages, in this order: a
\* system message whose content is the constant persona string, then a user
\* message that is the template's text with the question put in literally,
\* the count of all the retrieved results (whether or not their snippets fit
\* the budget) as a decimal numeral, and the build_context block of the
\* results under the default budget.
C11_TwoMessages ==
    pc = "return" =>
        /\ Len(ret) = 2
        /\ ret[1] = [role |-> "system", content |-> SYSTEM_HE]
        /\ ret[2].role = "user"
        /\ ret[2].content =
              TEMPLATE_BEFORE_QUESTION \o args.question
              \o TEMPLATE_BEFORE_N \o Numeral(Len(args.results))
              \o TEMPLATE_BEFORE_CONTEXT
              \o build_context(args.results, DEFAULT_MAX_CHARS)
              \o TEMPLATE_AFTER_CONTEXT

\* Three results of which only the first fits the budget, and a question
\* that spells a replacement field: the prompt says 3 and carries one chunk.
C11_Witness ==
    /\ pc = "return"
    /\ args.results = <<R1, BIG, TINY>>
    /\ args.question = <<123, 110, 125>>
    /\ ret[2].content =
          TEMPLATE_BEFORE_QUESTION \o <<123, 110, 125>>
          \o TEMPLATE_BEFORE_N \o <<51>> \o TEMPLATE_BEFORE_CONTEXT
          \o chunk_of(R1) \o TEMPLATE_AFTER_CONTEXT

====
